---------------------------- MODULE Spec2Model ----------------------------
(***************************************************************************)
(* A model of AzureOpenAICostEstimator (azure-openai-cost-estimator).      *)
(*                                                                         *)
(* Strings are sequences of one-character strings, so that the regular     *)
(* expressions and the string methods of the source are computed           *)
(* character by character.  Money is kept exact:                           *)
(*   - a raw unitPrice of the price list is an integer number of micro     *)
(*     currency units (10^-6),                                             *)
(*   - inputUsd and outputUsd are stored in the same micro units, and     *)
(*     imageUsd in 10^-8 currency units, which makes the image meter's     *)
(*     division by 100 exact,                                              *)
(*   - a returned cost is an integer number of micro units, which is what  *)
(*     toFixed(6) leaves.                                                  *)
(***************************************************************************)
EXTENDS Integers, Sequences, FiniteSets, TLC

(***************************************************************************)
(* Characters and the string methods the source uses.                      *)
(***************************************************************************)
UpperChars == <<"A","B","C","D","E","F","G","H","I","J","K","L","M","N","O","P","Q","R","S","T","U","V","W","X","Y","Z">>
LowerChars == <<"a","b","c","d","e","f","g","h","i","j","k","l","m","n","o","p","q","r","s","t","u","v","w","x","y","z">>
DigitChars == <<"0","1","2","3","4","5","6","7","8","9">>

Range(s) == {s[i] : i \in 1..Len(s)}

\* [0-9]
IsDigit(c) == c \in Range(DigitChars)

\* [a-z0-9], the class the fallback rule keeps
IsLowerAlnum(c) == c \in Range(LowerChars) \cup Range(DigitChars)

\* \w of a JavaScript regular expression: [A-Za-z0-9_]
IsWordChar(c) == c \in Range(LowerChars) \cup Range(UpperChars) \cup Range(DigitChars) \cup {"_"}

\* String.prototype.toLowerCase, one character
LowerChar(c) ==
  IF \E i \in 1..Len(UpperChars) : UpperChars[i] = c
    THEN LowerChars[CHOOSE i \in 1..Len(UpperChars) : UpperChars[i] = c]
    ELSE c

\* String.prototype.toLowerCase
toLowerCase(s) == [i \in 1..Len(s) |-> LowerChar(s[i])]

\* the character at position i, or "" outside the string
CharAt(s, i) == IF i \in 1..Len(s) THEN s[i] ELSE ""

\* pat occurs in s at position i
StartsAt(s, i, pat) ==
  /\ i >= 1
  /\ i + Len(pat) - 1 <= Len(s)
  /\ SubSeq(s, i, i + Len(pat) - 1) = pat

\* String.prototype.includes
Includes(s, pat) == \E i \in 1..(Len(s) + 1) : StartsAt(s, i, pat)

\* the value of a string | null expression that is null
Null == <<"null">>

\* the least element of a non-empty set of integers
Least(S) == CHOOSE i \in S : \A j \in S : i <= j

\* the greatest element of a non-empty set of integers
Greatest(S) == CHOOSE i \in S : \A j \in S : i >= j

(***************************************************************************)
(* The o-family pattern  /\bo[- ]?([0-9]+)(?:[- ]mini)?/i , which both      *)
(* extractModelKey and canonicalModelId apply to a lower-cased string.     *)
(***************************************************************************)
\* OFamilyDigitsAt without the optional separator: /\bo([0-9]+)/
OFamilyDigitsAdjacent(s, i) == i + 1

\* where the digits start when the pattern is tried at position i:
\* the greedy [- ]? takes a separator when there is one
OFamilyDigitsAt(s, i) == IF CharAt(s, i + 1) \in {"-", " "} THEN i + 2 ELSE i + 1

\* the pattern matches at position i: a word boundary, "o", an optional
\* separator, at least one digit (the optional "mini" group never decides)
OFamilyMatchesAt(s, i) ==
  /\ CharAt(s, i) = "o"
  /\ (i = 1 \/ ~IsWordChar(s[i - 1]))
  /\ IsDigit(CharAt(s, OFamilyDigitsAt(s, i)))

\* oFamilyMatch[1]: the digits captured by the leftmost match, or Null
OFamilyVersion(s) ==
  LET starts == {i \in 1..Len(s) : OFamilyMatchesAt(s, i)} IN
  IF starts = {} THEN Null
  ELSE LET d == OFamilyDigitsAt(s, Least(starts))
           e == Greatest({k \in d..Len(s) : \A j \in d..k : IsDigit(s[j])})
       IN SubSeq(s, d, e)

\* `o${version}${isMini ? '-mini' : ''}` with isMini = s.includes('mini')
OFamilyKey(s) ==
  <<"o">> \o OFamilyVersion(s)
    \o (IF Includes(s, <<"m","i","n","i">>) THEN <<"-","m","i","n","i">> ELSE <<>>)

(***************************************************************************)
(* extractModelKey: the vendor path.                                       *)
(***************************************************************************)
\* where the version starts when the GPT pattern is tried at position i
GptVersionAt(s, i) == IF CharAt(s, i + 3) \in {"-", " "} THEN i + 4 ELSE i + 3

\* /gpt[- ]?([34](?:\.5)?)(?:[ -]turbo)?(?:.*?)(32k|16k|8k|1106|0125|o)?/
\* matches at position i: everything after the version digit is optional
GptMatchesAt(s, i) ==
  /\ StartsAt(s, i, <<"g","p","t">>)
  /\ CharAt(s, GptVersionAt(s, i)) \in {"3", "4"}

\* the alternatives of the second group, in the order the pattern tries them
GptSuffixes ==
  << <<"3","2","k">>, <<"1","6","k">>, <<"8","k">>, <<"1","1","0","6">>,
     <<"0","1","2","5">>, <<"o">> >>

\* gptMatch[2]: the lazy .*? matches nothing and the optional group is tried
\* once, at position p; Null when no alternative starts there
GptSuffixAt(s, p) ==
  LET hits == {k \in 1..Len(GptSuffixes) : StartsAt(s, p, GptSuffixes[k])} IN
  IF hits = {} THEN Null ELSE GptSuffixes[Least(hits)]

\* the key built from the leftmost match of the GPT pattern, or Null
GptKey(s) ==
  LET starts == {i \in 1..Len(s) : GptMatchesAt(s, i)} IN
  IF starts = {} THEN Null
  ELSE LET v == GptVersionAt(s, Least(starts))
           half == StartsAt(s, v + 1, <<".","5">>)
           \* gptMatch[1].replace('.', '')
           ver == IF half THEN <<s[v], "5">> ELSE <<s[v]>>
           t == IF half THEN v + 3 ELSE v + 1
           turbo == CharAt(s, t) \in {" ", "-"} /\ StartsAt(s, t + 1, <<"t","u","r","b","o">>)
           p == IF turbo THEN t + 6 ELSE t
           ctx == GptSuffixAt(s, p)
       IN <<"g","p","t","-">> \o ver \o (IF ctx = Null THEN <<>> ELSE <<"-">> \o ctx)

\* the alternatives of /embedding.*(ada|babbage|curie|davinci|gecko)/
EmbeddingFamilies ==
  << <<"a","d","a">>, <<"b","a","b","b","a","g","e">>, <<"c","u","r","i","e">>,
     <<"d","a","v","i","n","c","i">>, <<"g","e","c","k","o">> >>

\* embedMatch[1]: the greedy .* leaves the group the last place where a family
\* name starts after the first "embedding"; Null when there is none
EmbeddingFamily(s) ==
  LET word == <<"e","m","b","e","d","d","i","n","g">>
      starts == {i \in 1..Len(s) : StartsAt(s, i, word)}
      places == IF starts = {} THEN {}
                ELSE {p \in (Least(starts) + Len(word))..Len(s) :
                        \E k \in 1..Len(EmbeddingFamilies) : StartsAt(s, p, EmbeddingFamilies[k])}
  IN IF places = {} THEN Null
     ELSE EmbeddingFamilies[Least({k \in 1..Len(EmbeddingFamilies) :
                                     StartsAt(s, Greatest(places), EmbeddingFamilies[k])})]

extractModelKey(meterName, skuName) ==
  LET src == toLowerCase(meterName \o <<" ">> \o skuName) IN
  IF OFamilyVersion(src) # Null THEN OFamilyKey(src)
  ELSE IF Includes(src, <<"g","p","t","-","3","5">>) \/ Includes(src, <<"g","p","t","3","5">>)
    THEN <<"g","p","t","-","3","5","-","t","u","r","b","o">>
  ELSE IF GptKey(src) # Null THEN GptKey(src)
  ELSE IF EmbeddingFamily(src) # Null
    THEN <<"t","e","x","t","-","e","m","b","e","d","d","i","n","g","-">> \o EmbeddingFamily(src)
  ELSE IF Includes(src, <<"d","a","l","l","-","e">>) THEN <<"d","a","l","l","-","e">>
  ELSE Null

(***************************************************************************)
(* canonicalModelId: the user path.                                        *)
(***************************************************************************)
\* .replace(/[^a-z0-9]/g, '-')
ReplaceNonAlnum(s) == [i \in 1..Len(s) |-> IF IsLowerAlnum(s[i]) THEN s[i] ELSE "-"]

\* .replace(/--+/g, '-')
RECURSIVE CollapseHyphens(_)
CollapseHyphens(s) ==
  IF Len(s) <= 1 THEN s
  ELSE IF s[1] = "-" /\ s[2] = "-" THEN CollapseHyphens(Tail(s))
  ELSE <<s[1]>> \o CollapseHyphens(Tail(s))

\* every occurrence of pat removed, left to right
RECURSIVE RemoveAll(_, _)
RemoveAll(s, pat) ==
  IF s = <<>> THEN s
  ELSE IF StartsAt(s, 1, pat) THEN RemoveAll(SubSeq(s, Len(pat) + 1, Len(s)), pat)
  ELSE <<s[1]>> \o RemoveAll(Tail(s), pat)

\* .replace(/^-|-\$/g, ''): a hyphen at the start, and every hyphen followed
\* by a dollar sign (the pattern's "\$" is a literal dollar, not the end)
StripEdges(s) ==
  RemoveAll(IF CharAt(s, 1) = "-" THEN Tail(s) ELSE s, <<"-","$">>)

canonicalModelId(model) ==
  LET modelLower == toLowerCase(model) IN
  IF OFamilyVersion(modelLower) # Null THEN OFamilyKey(modelLower)
  ELSE IF Includes(modelLower, <<"g","p","t","-","3",".","5">>)
          \/ Includes(modelLower, <<"g","p","t","3",".","5">>)
    THEN <<"g","p","t","-","3","5","-","t","u","r","b","o">>
  ELSE StripEdges(CollapseHyphens(ReplaceNonAlnum(toLowerCase(model))))

(***************************************************************************)
(* Optional values.  A property that may be undefined (promptTokens?,      *)
(* inputUsd?, opts.currency) is the empty set when it is undefined and the *)
(* singleton of its value when it is set.                                  *)
(***************************************************************************)
Undefined == {}

ValueOf(x) == CHOOSE v \in x : TRUE

\* x ?? d
OrElse(x, d) == IF x = Undefined THEN d ELSE ValueOf(x)

\* a Map or a plain object with key k set to v
Put(f, k, v) == [x \in DOMAIN f \cup {k} |-> IF x = k THEN v ELSE f[x]]

\* new Map(), {}
Empty == [x \in {} |-> x]

(***************************************************************************)
(* Bounds of the model.                                                    *)
(***************************************************************************)
\* Date.now() runs from 0 to MaxTime
MaxTime == 3

\* the upstream answers a refresh with at most MaxPages pages
MaxPages == 2

\* the records handed to the normalizer on its own are at most
MaxRecords == 3

(***************************************************************************)
(* Money.                                                                  *)
(***************************************************************************)
\* imageUsd counts 10^-8 currency units: ImageUnitsPerMicro of them make one
\* micro unit
ImageUnitsPerMicro == 100

\* toFixed6 cutting the digits after the sixth decimal instead of rounding
toFixed6Truncating(num, den) == {num \div den}

\* +(x).toFixed(6) for x = num / den micro units: the nearest whole number of
\* micro units.  On a decimal tie the double that stands for x lies on one
\* side or the other, so both neighbours are possible.
toFixed6(num, den) ==
  LET q == num \div den
      r == num % den
  IN IF 2 * r < den THEN {q}
     ELSE IF 2 * r > den THEN {q + 1}
     ELSE {q, q + 1}

(***************************************************************************)
(* The upstream price list: the records (AzurePriceApiResponse.Items) the  *)
(* Retail Prices API may return.  An item of a page is named by its index. *)
(***************************************************************************)
PriceList ==
  << [meterName |-> {<<"G","P","T","-","4"," ","P","r","o","m","p","t"," ","T","o","k","e","n","s">>},
      skuName |-> {<<"G","P","T","-","4">>}, unitPrice |-> {30000}],
     [meterName |-> {<<"G","P","T","-","4"," ","C","o","m","p","l","e","t","i","o","n"," ","T","o","k","e","n","s">>},
      skuName |-> {<<"G","P","T","-","4">>}, unitPrice |-> {60000}],
     [meterName |-> {<<"D","A","L","L","-","E"," ","I","m","a","g","e">>},
      skuName |-> {<<"D","A","L","L","-","E">>}, unitPrice |-> {20000000}],
     [meterName |-> {<<"O","1"," ","T","o","k","e","n","s">>},
      skuName |-> {<<"S","t","a","n","d","a","r","d">>}, unitPrice |-> {10000}],
     [meterName |-> {<<"O","3","-","M","i","n","i"," ","P","r","o","m","p","t"," ","T","o","k","e","n","s">>},
      skuName |-> {<<"S","t","a","n","d","a","r","d">>}, unitPrice |-> {1500}],
     [meterName |-> {<<"O","3","-","M","i","n","i"," ","C","o","m","p","l","e","t","i","o","n"," ","T","o","k","e","n","s">>},
      skuName |-> {<<"S","t","a","n","d","a","r","d">>}, unitPrice |-> {2200}],
     [meterName |-> {<<"T","e","x","t"," ","e","m","b","e","d","d","i","n","g"," ","a","d","a">>},
      skuName |-> {<<"T","e","x","t"," ","E","m","b","e","d","d","i","n","g">>}, unitPrice |-> {100}],
     [meterName |-> {<<"O","4"," ","C","o","m","p","l","e","t","i","o","n"," ","T","o","k","e","n","s">>},
      skuName |-> {<<"S","t","a","n","d","a","r","d">>}, unitPrice |-> Undefined],
     [meterName |-> {<<"F","i","n","e"," ","T","u","n","i","n","g"," ","H","o","u","r","s">>},
      skuName |-> {<<"T","r","a","i","n","i","n","g">>}, unitPrice |-> {5000000}],
     [meterName |-> {<<"D","A","L","L","-","E"," ","I","m","a","g","e">>},
      skuName |-> {<<"D","A","L","L","-","E">>}, unitPrice |-> {150}],
     [meterName |-> {<<"G","P","T","-","4"," ","I","m","a","g","e"," ","I","n","p","u","t"," ","T","o","k","e","n","s">>},
      skuName |-> {<<"G","P","T","-","4">>}, unitPrice |-> {5000}],
     [meterName |-> {<<"T","e","x","t"," ","e","m","b","e","d","d","i","n","g"," ","a","d","a"," ","O","u","t","p","u","t">>},
      skuName |-> {<<"T","e","x","t"," ","E","m","b","e","d","d","i","n","g">>}, unitPrice |-> {300}],
     [meterName |-> {<<"D","A","L","L","-","E"," ","P","r","o","m","p","t"," ","C","o","m","p","l","e","t","i","o","n">>},
      skuName |-> {<<"D","A","L","L","-","E">>}, unitPrice |-> {700}] >>

\* the Items arrays a response may carry
PageItems == { <<1, 2, 3, 4>>, <<5, 6, 7, 8, 9, 10>> }

(***************************************************************************)
(* fetchPricing, second half: the model -> meter map built from allItems.  *)
(***************************************************************************)
\* a PriceMeters with no field set: {}
EmptyMeters == [inputUsd |-> Undefined, outputUsd |-> Undefined, imageUsd |-> Undefined]

\* PerImage with the raw price taken as the price of 1000 images
PerImageOfThousand(pricePerUnit) == (pricePerUnit * ImageUnitsPerMicro) \div 1000

\* pricePerUnit / 100, the per-image price of an image meter
PerImage(pricePerUnit) == (pricePerUnit * ImageUnitsPerMicro) \div 100

\* WithPrice looking for input/prompt before image
WithPriceInputFirst(entry, meterName, pricePerUnit) ==
  LET name == toLowerCase(meterName) IN
  IF Includes(name, <<"i","n","p","u","t">>) \/ Includes(name, <<"p","r","o","m","p","t">>)
    THEN [entry EXCEPT !.inputUsd = {pricePerUnit}]
  ELSE IF Includes(name, <<"i","m","a","g","e">>)
    THEN [entry EXCEPT !.imageUsd = {PerImage(pricePerUnit)}]
  ELSE IF Includes(name, <<"o","u","t","p","u","t">>)
          \/ Includes(name, <<"c","o","m","p","l","e","t","i","o","n">>)
    THEN [entry EXCEPT !.outputUsd = {pricePerUnit}]
  ELSE IF Includes(name, <<"e","m","b","e","d","d","i","n","g">>)
    THEN [entry EXCEPT !.inputUsd = {pricePerUnit}]
  ELSE entry

\* the field an item sets, chosen by the first keyword its meter name holds
WithPrice(entry, meterName, pricePerUnit) ==
  LET name == toLowerCase(meterName) IN
  IF Includes(name, <<"i","m","a","g","e">>)
    THEN [entry EXCEPT !.imageUsd = {PerImage(pricePerUnit)}]
  ELSE IF Includes(name, <<"i","n","p","u","t">>) \/ Includes(name, <<"p","r","o","m","p","t">>)
    THEN [entry EXCEPT !.inputUsd = {pricePerUnit}]
  ELSE IF Includes(name, <<"o","u","t","p","u","t">>)
          \/ Includes(name, <<"c","o","m","p","l","e","t","i","o","n">>)
    THEN [entry EXCEPT !.outputUsd = {pricePerUnit}]
  ELSE IF Includes(name, <<"e","m","b","e","d","d","i","n","g">>)
    THEN [entry EXCEPT !.inputUsd = {pricePerUnit}]
  ELSE entry

\* one turn of the loop over allItems
AddItem(meters, item) ==
  LET meterName == OrElse(item.meterName, <<>>)
      skuName == OrElse(item.skuName, <<>>)
      pricePerUnit == OrElse(item.unitPrice, 0)
      modelKey == extractModelKey(meterName, skuName)
      entry == IF modelKey \in DOMAIN meters THEN meters[modelKey] ELSE EmptyMeters
  IN IF modelKey = Null THEN meters
     ELSE Put(meters, modelKey, WithPrice(entry, meterName, pricePerUnit))

\* the loop over the first n items of allItems
RECURSIVE MetersAfter(_, _)
MetersAfter(allItems, n) ==
  IF n = 0 THEN Empty
  ELSE AddItem(MetersAfter(allItems, n - 1), PriceList[allItems[n]])

\* the map fetchPricing returns
BuildMeters(allItems) == MetersAfter(allItems, Len(allItems))

\* the allItems a refresh can end with: the items of 1..n pages
RECURSIVE ItemLists(_)
ItemLists(n) ==
  IF n = 0 THEN {<<>>}
  ELSE {l \o p : l \in ItemLists(n - 1), p \in PageItems} \cup ItemLists(n - 1)

\* BuildMeters, computed once for each list of items
MetersOf == [l \in ItemLists(MaxPages) |-> BuildMeters(l)]

(***************************************************************************)
(* The strings the callers of the model pass to estimateCost.              *)
(***************************************************************************)
RegionNames ==
  { <<"E","a","s","t","U","S">>, <<"e","a","s","t","u","s">>, <<"w","e","s","t","u","s">> }

CacheModels ==
  { <<"g","p","t","-","4">>,
    <<"n","o","n","-","e","x","i","s","t","e","n","t","-","m","o","d","e","l">>,
    <<"c","o","n","s","t","r","u","c","t","o","r">> }

CostModels ==
  { <<"g","p","t","-","4">>,
    <<"d","a","l","l","-","e">>,
    <<"d","a","l","l","-","e","-","3">>,
    <<"t","e","x","t","-","e","m","b","e","d","d","i","n","g","-","a","d","a">>,
    <<"o","1">>,
    <<"o","4">>,
    <<"o","3","-","m","i","n","i">>,
    <<"O","3"," ","M","i","n","i">>,
    <<"O","p","e","n","A","I","-","o","3","m","i","n","i">>,
    <<"c","o","n","s","t","r","u","c","t","o","r">> }

\* the usage counters of a CostInput: promptTokens, completionTokens, imageCount
Usages ==
  { [promptTokens |-> Undefined, completionTokens |-> Undefined, imageCount |-> Undefined],
    [promptTokens |-> {1}, completionTokens |-> {1}, imageCount |-> Undefined],
    [promptTokens |-> {1}, completionTokens |-> Undefined, imageCount |-> {0}],
    [promptTokens |-> {500}, completionTokens |-> {200}, imageCount |-> {5}] }

(***************************************************************************)
(* The strings handed to the canonicalizers on their own.                  *)
(***************************************************************************)
\* vendor prefixes of a user's o-family spelling
OPrefixes == { <<>>, <<"O","p","e","n","A","I","-">>, <<"o","p","e","n","a","i",".">> }

OLetters == { <<"o">>, <<"O">> }

\* what may stand between "o" and the digits, and between the digits and "mini"
Separators == { <<>>, <<"-">>, <<" ">> }

OVersions == { <<"1">>, <<"3">>, <<"1","0">> }

MiniWords == { <<"m","i","n","i">>, <<"M","I","N","I">>, <<"M","i","n","i">> }

\* the user spellings of the o-family model of a version and a mini-ness
OSpellings(version, mini) ==
  { p \o o \o s1 \o version \o m :
      p \in OPrefixes, o \in OLetters, s1 \in Separators,
      m \in (IF mini THEN {s2 \o w : s2 \in Separators, w \in MiniWords} ELSE {<<>>}) }

\* the meter names the vendor gives that model
OVendorMeters(version, mini) ==
  { <<"O">> \o version \o (IF mini THEN <<"-","M","i","n","i">> ELSE <<>>) \o d :
      d \in { <<" ","P","r","o","m","p","t"," ","T","o","k","e","n","s">>,
               <<" ","C","o","m","p","l","e","t","i","o","n"," ","T","o","k","e","n","s">> } }

\* the model names the README and the CostInput documentation give
DocumentedModels ==
  { <<"g","p","t","-","4">>,
    <<"g","p","t","-","4","-","3","2","k">>,
    <<"g","p","t","-","4","o">>,
    <<"g","p","t","-","3",".","5","-","t","u","r","b","o">>,
    <<"g","p","t","-","3","5","-","t","u","r","b","o">>,
    <<"t","e","x","t","-","e","m","b","e","d","d","i","n","g","-","a","d","a","-","0","0","2">>,
    <<"d","a","l","l","-","e","-","3">>,
    <<"o","3">>,
    <<"o","3","-","m","i","n","i">> }

\* texts that hold one of the four GPT-3.5 spellings
Gpt35Texts ==
  { <<"g","p","t","-","3",".","5","-","t","u","r","b","o">>,
    <<"g","p","t","3",".","5">>,
    <<"g","p","t","-","3","5","-","t","u","r","b","o">>,
    <<"g","p","t","3","5">>,
    <<"g","p","t","-","3","5">>,
    <<"G","P","T","-","3",".","5"," ","T","u","r","b","o">>,
    <<"G","P","T","-","3","5","-","T","u","r","b","o"," ","P","r","o","m","p","t"," ","T","o","k","e","n","s">>,
    <<"G","P","T","-","3",".","5"," ","T","u","r","b","o"," ","I","n","p","u","t"," ","T","o","k","e","n","s">>,
    <<"g","p","t","-","3",".","5","-","t","u","r","b","o","-","1","6","k">>,
    <<"g","p","t","3","5","-","t","u","r","b","o","-","1","6","k">> }

\* the major versions of the generic GPT rule
GptVersions == { <<"3">>, <<"4">> }

\* nothing, or the word turbo after a space or a hyphen
TurboWords == { <<>>, <<" ","T","u","r","b","o">>, <<"-","T","u","r","b","o">> }

\* the vendor's texts for the GPT model of a version and a suffix (<<>> for
\* none): the suffix joined directly, through a hyphen or through a space
GptVendorTexts(version, suffix) ==
  { <<"G","P","T","-">> \o version \o t \o (IF suffix = <<>> THEN <<>> ELSE s \o suffix) :
      t \in TurboWords, s \in Separators }

\* user model strings of no known family
FallbackTexts ==
  { <<"G","P","T"," ","4"," ">>,
    <<"-","-","a","$","-","$","b","-">>,
    <<"M","y","_","M","o","d","e","l"," ","v","2">>,
    <<"-","x">>,
    <<"a","-","-","b">>,
    <<"l","l","a","m","a","-","2","-">>,
    <<"M","i","s","t","r","a","l",".","L","a","r","g","e","!">>,
    <<>>,
    <<"d","a","v","i","n","c","i">>,
    <<"C","l","a","u","d","e"," ","3"," ","(","O","p","u","s",")">> }

CanonTexts ==
  UNION {OSpellings(v, m) \cup OVendorMeters(v, m) : v \in OVersions, m \in BOOLEAN}
    \cup DocumentedModels \cup Gpt35Texts
    \cup UNION {GptVendorTexts(v, x) : v \in GptVersions, x \in Range(GptSuffixes) \cup {<<>>}}
    \cup FallbackTexts

SkuNames == { <<>>, <<"S","t","a","n","d","a","r","d">> }

\* the model names of every caller of the model
ModelNames == CacheModels \cup CostModels \cup CanonTexts

\* canonicalModelId, computed once for each model name
CanonicalIds == [m \in ModelNames |-> canonicalModelId(m)]

\* toLowerCase, computed once for each region name
LowerCased == [r \in RegionNames |-> toLowerCase(r)]

(***************************************************************************)
(* estimateCost, second half: from the region's pricing to the outcome.    *)
(***************************************************************************)
\* what a property read of Function finds for the price fields
ObjectConstructor == EmptyMeters

\* pricing.meters[modelId] on a plain object: the entry, or what the key
\* names on Object.prototype (of the strings canonicalModelId can return,
\* only "constructor"), or undefined
LookupMeters(meters, modelId) ==
  IF modelId \in DOMAIN meters THEN {meters[modelId]}
  ELSE IF modelId = <<"c","o","n","s","t","r","u","c","t","o","r">> THEN {ObjectConstructor}
  ELSE Undefined

\* a resolved promise
Cost(n) == [kind |-> "cost", cost |-> n]

\* new Error(`Pricing for model "${input.model}" not found in region "${region}".`)
PricingNotFound(model, region) == [kind |-> "PricingNotFound", model |-> model, region |-> region]

\* new Error('Unable to determine cost - unsupported input combination.')
UnsupportedInput == [kind |-> "UnsupportedInput"]

\* the rejection of axios.get, which nothing catches
UpstreamError == [kind |-> "UpstreamError"]

\* TextCost without the completion tokens
TextCostOfPrompt(meters, input) ==
  toFixed6(OrElse(input.promptTokens, 0) * OrElse(meters.inputUsd, 0), 1000)

\* the text-model branch
TextCost(meters, input) ==
  LET inTok == OrElse(input.promptTokens, 0)
      outTok == OrElse(input.completionTokens, 0)
  IN toFixed6(inTok * OrElse(meters.inputUsd, 0) + outTok * OrElse(meters.outputUsd, 0),
              1000)

\* the embedding branch
EmbeddingCost(meters, input) ==
  toFixed6(OrElse(input.promptTokens, 0) * OrElse(meters.inputUsd, 0), 1000)

\* the image branch
ImageCost(meters, input) ==
  toFixed6(OrElse(input.imageCount, 1) * ValueOf(meters.imageUsd), ImageUnitsPerMicro)

\* the branches of estimateCost on the meters found
CostOutcomes(meters, input) ==
  IF meters.inputUsd # Undefined THEN {Cost(n) : n \in TextCost(meters, input)}
  ELSE IF meters.outputUsd = Undefined /\ meters.imageUsd = Undefined
    THEN {Cost(n) : n \in EmbeddingCost(meters, input)}
  ELSE IF meters.imageUsd # Undefined THEN {Cost(n) : n \in ImageCost(meters, input)}
  ELSE {UnsupportedInput}

\* the outcomes of estimateCost once the region's pricing is in the cache
EstimateOutcomes(pricing, region, input) ==
  LET modelId == CanonicalIds[input.model]
      meters == LookupMeters(pricing.meters, modelId)
  IN IF meters = Undefined THEN {PricingNotFound(input.model, region)}
     ELSE CostOutcomes(ValueOf(meters), input)

(***************************************************************************)
(* The estimator and its callers.                                          *)
(***************************************************************************)
VARIABLES
  opts,      \* the EstimatorOptions the estimator was constructed with
  currency,  \* this.currency
  cacheTTL,  \* this.cacheTTL
  cache,     \* this.cache: region -> CachedRegionPricing
  now,       \* Date.now()
  calls,     \* the estimateCost calls: where each stands and what it holds
  text,      \* a string handed to the canonicalizers on their own
  sku,       \* the skuName handed to extractModelKey with it
  userKey,   \* canonicalModelId(text), once applied
  vendorKey, \* extractModelKey(text, sku), once applied
  quote,     \* the outcomes of estimateCost for the model text on ReferencePricing
  records,   \* the records handed to the normalizer on its own, by their index
  table      \* the map the normalizer built from them, once applied

vars ==
  <<opts, currency, cacheTTL, cache, now, calls, text, sku, userKey, vendorKey, quote,
    records, table>>

estimatorVars == <<opts, currency, cacheTTL, cache, now, calls>>

canonVars == <<text, sku, userKey, vendorKey, quote>>

normVars == <<records, table>>

\* the slots an estimateCost call may run in
Calls == {1, 2}

\* opts.cacheTTL ?? 24 * 60 * 60 * 1000
DefaultCacheTTL == 24 * 60 * 60 * 1000

\* no NextPageLink, or a null one
NullLink == [null |-> TRUE]

\* FirstPage with the currency written into the filter as 'USD'
FirstPageInUsd(region) ==
  [filter |-> [serviceName |-> "Azure OpenAI Service",
               armRegionName |-> region,
               currencyCode |-> "USD"],
   skip |-> 0]

\* `${endpoint}?$filter=${filter}`: the three predicates of the filter
FirstPage(region) ==
  [filter |-> [serviceName |-> "Azure OpenAI Service",
               armRegionName |-> region,
               currencyCode |-> currency],
   skip |-> 0]

\* the NextPageLink of the Retail Prices API: the request's own query, with
\* the number of items already returned as $skip
FollowingPage(url, items) == [url EXCEPT !.skip = @ + Len(items)]

NoInput ==
  [region |-> <<>>, model |-> <<>>, promptTokens |-> Undefined,
   completionTokens |-> Undefined, imageCount |-> Undefined]

NoResult == [kind |-> "none"]

IdleCall ==
  [pc |-> "idle", input |-> NoInput, region |-> <<>>, next |-> NullLink,
   allItems |-> <<>>, requests |-> 0, result |-> NoResult]

\* not yet applied
Unset == <<"unset">>

\* constructor
Construct(o) ==
  /\ opts = o
  /\ currency = OrElse(o.currency, "USD")
  /\ cacheTTL = OrElse(o.cacheTTL, DefaultCacheTTL)
  /\ cache = Empty

\* IsFresh with <= for <: an entry of age cacheTTL still counts as fresh
IsFreshInclusive(region) ==
  /\ region \in DOMAIN cache
  /\ now - cache[region].fetchedAt <= cacheTTL

\* ensurePricing's test: cached && Date.now() - cached.fetchedAt < this.cacheTTL
IsFresh(region) ==
  /\ region \in DOMAIN cache
  /\ now - cache[region].fetchedAt < cacheTTL

\* estimateCost up to its first suspension: the region is lower-cased and
\* ensurePricing either finds fresh pricing, and the call runs to its end,
\* or issues the first page request
Call(c, input) ==
  /\ calls[c].pc # "fetching"
  /\ LET region == LowerCased[input.region] IN
       IF IsFresh(region)
         THEN \E r \in EstimateOutcomes(cache[region], region, input) :
                calls' = [calls EXCEPT ![c] =
                            [pc |-> "done", input |-> input, region |-> region,
                             next |-> NullLink, allItems |-> <<>>, requests |-> 0,
                             result |-> r]]
         ELSE calls' = [calls EXCEPT ![c] =
                          [pc |-> "fetching", input |-> input, region |-> region,
                           next |-> FirstPage(region), allItems |-> <<>>, requests |-> 1,
                           result |-> NoResult]]
  /\ UNCHANGED <<opts, currency, cacheTTL, cache, now>>
  /\ UNCHANGED canonVars
  /\ UNCHANGED normVars

\* RespondMore leaving the items of the page out of allItems
RespondMoreWithoutItems(c, items) ==
  /\ calls[c].pc = "fetching"
  /\ calls[c].requests < MaxPages
  /\ calls' = [calls EXCEPT ![c].next = FollowingPage(@, items),
                            ![c].requests = @ + 1]
  /\ UNCHANGED <<opts, currency, cacheTTL, cache, now>>
  /\ UNCHANGED canonVars
  /\ UNCHANGED normVars

\* a page arrives with a NextPageLink: its items are kept and the next page
\* is requested
RespondMore(c, items) ==
  /\ calls[c].pc = "fetching"
  /\ calls[c].requests < MaxPages
  /\ calls' = [calls EXCEPT ![c].allItems = @ \o items,
                            ![c].next = FollowingPage(@, items),
                            ![c].requests = @ + 1]
  /\ UNCHANGED <<opts, currency, cacheTTL, cache, now>>
  /\ UNCHANGED canonVars
  /\ UNCHANGED normVars

\* the last page arrives: fetchPricing builds the map, ensurePricing stores
\* it under Date.now(), and estimateCost runs to its end
RespondLast(c, items) ==
  /\ calls[c].pc = "fetching"
  /\ LET region == calls[c].region
         meters == MetersOf[calls[c].allItems \o items]
         pricing == [fetchedAt |-> now, meters |-> meters]
     IN /\ cache' = Put(cache, region, pricing)
        /\ \E r \in EstimateOutcomes(pricing, region, calls[c].input) :
             calls' = [calls EXCEPT ![c].pc = "done",
                                    ![c].allItems = @ \o items,
                                    ![c].next = NullLink,
                                    ![c].result = r]
  /\ UNCHANGED <<opts, currency, cacheTTL, now>>
  /\ UNCHANGED canonVars
  /\ UNCHANGED normVars

\* RespondError with the rejection caught in ensurePricing and an empty map
\* stored for the region
RespondErrorStoresEmpty(c) ==
  /\ calls[c].pc = "fetching"
  /\ calls' = [calls EXCEPT ![c].pc = "done", ![c].result = UpstreamError]
  /\ cache' = Put(cache, calls[c].region, [fetchedAt |-> now, meters |-> Empty])
  /\ UNCHANGED <<opts, currency, cacheTTL, now>>
  /\ UNCHANGED canonVars
  /\ UNCHANGED normVars

\* a page request fails: the rejection leaves fetchPricing, ensurePricing
\* and estimateCost
RespondError(c) ==
  /\ calls[c].pc = "fetching"
  /\ calls' = [calls EXCEPT ![c].pc = "done", ![c].result = UpstreamError]
  /\ UNCHANGED <<opts, currency, cacheTTL, cache, now>>
  /\ UNCHANGED canonVars
  /\ UNCHANGED normVars

\* time passes
Tick ==
  /\ now < MaxTime
  /\ now' = now + 1
  /\ UNCHANGED <<opts, currency, cacheTTL, cache, calls>>
  /\ UNCHANGED canonVars
  /\ UNCHANGED normVars

(***************************************************************************)
(* Spec: one estimator and a caller that awaits each estimateCost before   *)
(* the next, over several regions, options and times.                      *)
(***************************************************************************)
OptionChoices ==
  { [currency |-> Undefined, cacheTTL |-> Undefined],
    [currency |-> {"EUR"}, cacheTTL |-> {2}],
    [currency |-> Undefined, cacheTTL |-> {1}] }

CacheInputs ==
  { [region |-> r, model |-> m, promptTokens |-> {500},
     completionTokens |-> {200}, imageCount |-> Undefined] :
      r \in RegionNames, m \in CacheModels }

NormIdle ==
  /\ records = <<>>
  /\ table = Undefined

CanonIdle ==
  /\ text = <<>>
  /\ sku = <<>>
  /\ userKey = Unset
  /\ vendorKey = Unset
  /\ quote = {}

Init ==
  /\ \E o \in OptionChoices : Construct(o)
  /\ now = 0
  /\ calls = [c \in Calls |-> IdleCall]
  /\ CanonIdle
  /\ NormIdle

Next ==
  \/ Tick
  \/ \E input \in CacheInputs : Call(1, input)
  \/ \E items \in PageItems : RespondMore(1, items)
  \/ \E items \in PageItems : RespondLast(1, items)
  \/ RespondError(1)

Spec == Init /\ [][Next]_vars

(***************************************************************************)
(* FairSpec: Spec with an upstream that, asked for pages long enough,      *)
(* answers one request with a null NextPageLink.                           *)
(***************************************************************************)
FairSpec == Spec /\ WF_vars(\E items \in PageItems : RespondLast(1, items))

(***************************************************************************)
(* CostSpec: the same estimator and caller, over one region and many       *)
(* models and usage counters.                                              *)
(***************************************************************************)
CostInputs ==
  { [region |-> <<"E","a","s","t","U","S">>, model |-> m,
     promptTokens |-> u.promptTokens, completionTokens |-> u.completionTokens,
     imageCount |-> u.imageCount] :
      m \in CostModels, u \in Usages }

CostInit ==
  /\ Construct([currency |-> Undefined, cacheTTL |-> Undefined])
  /\ now = 0
  /\ calls = [c \in Calls |-> IdleCall]
  /\ CanonIdle
  /\ NormIdle

CostNext ==
  \/ Tick
  \/ \E input \in CostInputs : Call(1, input)
  \/ \E items \in PageItems : RespondMore(1, items)
  \/ \E items \in PageItems : RespondLast(1, items)
  \/ RespondError(1)

CostSpec == CostInit /\ [][CostNext]_vars

(***************************************************************************)
(* CanonSpec: canonicalModelId, extractModelKey and the second half of     *)
(* estimateCost applied to one text.                                       *)
(***************************************************************************)
\* the pricing of a refresh answered with the whole price list
ReferencePricing == [fetchedAt |-> 0, meters |-> MetersOf[<<1, 2, 3, 4, 5, 6, 7, 8, 9, 10>>]]

\* an estimateCost input that names the model by the text
ReferenceInput(model) ==
  [region |-> <<"e","a","s","t","u","s">>, model |-> model,
   promptTokens |-> {500}, completionTokens |-> {200}, imageCount |-> {5}]

CanonInit ==
  /\ Construct([currency |-> Undefined, cacheTTL |-> Undefined])
  /\ now = 0
  /\ calls = [c \in Calls |-> IdleCall]
  /\ text \in CanonTexts
  /\ sku \in SkuNames
  /\ userKey = Unset
  /\ vendorKey = Unset
  /\ quote = {}
  /\ NormIdle

\* the user path
ApplyCanonicalModelId ==
  /\ userKey = Unset
  /\ userKey' = canonicalModelId(text)
  /\ UNCHANGED <<text, sku, vendorKey, quote>>
  /\ UNCHANGED estimatorVars
  /\ UNCHANGED normVars

\* the vendor path
ApplyExtractModelKey ==
  /\ vendorKey = Unset
  /\ vendorKey' = extractModelKey(text, sku)
  /\ UNCHANGED <<text, sku, userKey, quote>>
  /\ UNCHANGED estimatorVars
  /\ UNCHANGED normVars

\* estimateCost from the lookup on
ApplyEstimate ==
  /\ quote = {}
  /\ quote' = EstimateOutcomes(ReferencePricing, <<"e","a","s","t","u","s">>, ReferenceInput(text))
  /\ UNCHANGED <<text, sku, userKey, vendorKey>>
  /\ UNCHANGED estimatorVars
  /\ UNCHANGED normVars

CanonNext ==
  \/ ApplyCanonicalModelId
  \/ ApplyExtractModelKey
  \/ ApplyEstimate

CanonSpec == CanonInit /\ [][CanonNext]_vars

(***************************************************************************)
(* OverlapSpec: one estimator and callers that do not await each other.    *)
(* A call is suspended at each of its awaits; between two awaits it runs   *)
(* alone (one JavaScript thread), and any other call may run in between.   *)
(***************************************************************************)
\* estimateCost up to its first suspension: the region is lower-cased and
\* ensurePricing either returns at once (fresh pricing), leaving the call at
\* `await this.ensurePricing(region)`, or issues the first page request
Invoke(c, input) ==
  /\ calls[c].pc \in {"idle", "done"}
  /\ LET region == LowerCased[input.region] IN
       calls' = [calls EXCEPT ![c] =
                   IF IsFresh(region)
                     THEN [pc |-> "ensured", input |-> input, region |-> region,
                           next |-> NullLink, allItems |-> <<>>, requests |-> 0,
                           result |-> NoResult]
                     ELSE [pc |-> "fetching", input |-> input, region |-> region,
                           next |-> FirstPage(region), allItems |-> <<>>, requests |-> 1,
                           result |-> NoResult]]
  /\ UNCHANGED <<opts, currency, cacheTTL, cache, now>>
  /\ UNCHANGED canonVars
  /\ UNCHANGED normVars

\* a page arrives with a NextPageLink: allItems.push(...data.Items), and the
\* next page is requested
PageArrives(c, items) ==
  /\ calls[c].pc = "fetching"
  /\ calls[c].requests < MaxPages
  /\ calls' = [calls EXCEPT ![c].allItems = @ \o items,
                            ![c].next = FollowingPage(@, items),
                            ![c].requests = @ + 1]
  /\ UNCHANGED <<opts, currency, cacheTTL, cache, now>>
  /\ UNCHANGED canonVars
  /\ UNCHANGED normVars

\* the last page arrives: the loop ends and fetchPricing returns the map of
\* allItems, leaving the call at `await this.fetchPricing(region)`
LastPageArrives(c, items) ==
  /\ calls[c].pc = "fetching"
  /\ calls' = [calls EXCEPT ![c].pc = "fetched",
                            ![c].allItems = @ \o items,
                            ![c].next = NullLink]
  /\ UNCHANGED <<opts, currency, cacheTTL, cache, now>>
  /\ UNCHANGED canonVars
  /\ UNCHANGED normVars

\* CacheSet writing the new map over the old one key by key
CacheSetMerging(c) ==
  /\ calls[c].pc = "fetched"
  /\ LET region == calls[c].region
         new == MetersOf[calls[c].allItems]
         old == IF region \in DOMAIN cache THEN cache[region].meters ELSE Empty
         merged == [k \in DOMAIN old \cup DOMAIN new |->
                      IF k \in DOMAIN new THEN new[k] ELSE old[k]]
     IN cache' = Put(cache, region, [fetchedAt |-> now, meters |-> merged])
  /\ calls' = [calls EXCEPT ![c].pc = "ensured", ![c].allItems = <<>>, ![c].requests = 0]
  /\ UNCHANGED <<opts, currency, cacheTTL, now>>
  /\ UNCHANGED canonVars
  /\ UNCHANGED normVars

\* ensurePricing resumes: this.cache.set(region, { fetchedAt: Date.now(), meters }),
\* and it returns, leaving the call at `await this.ensurePricing(region)`
CacheSet(c) ==
  /\ calls[c].pc = "fetched"
  /\ cache' = Put(cache, calls[c].region,
                  [fetchedAt |-> now, meters |-> MetersOf[calls[c].allItems]])
  /\ calls' = [calls EXCEPT ![c].pc = "ensured", ![c].allItems = <<>>, ![c].requests = 0]
  /\ UNCHANGED <<opts, currency, cacheTTL, now>>
  /\ UNCHANGED canonVars
  /\ UNCHANGED normVars

\* estimateCost resumes: this.cache.get(region)!, and it runs to its end
CacheGet(c) ==
  /\ calls[c].pc = "ensured"
  /\ \E r \in EstimateOutcomes(cache[calls[c].region], calls[c].region, calls[c].input) :
       calls' = [calls EXCEPT ![c].pc = "done", ![c].result = r]
  /\ UNCHANGED <<opts, currency, cacheTTL, cache, now>>
  /\ UNCHANGED canonVars
  /\ UNCHANGED normVars

\* a page request fails: the rejection leaves fetchPricing, ensurePricing
\* and estimateCost
RequestRejects(c) ==
  /\ calls[c].pc = "fetching"
  /\ calls' = [calls EXCEPT ![c].pc = "done", ![c].allItems = <<>>, ![c].requests = 0,
                            ![c].next = NullLink, ![c].result = UpstreamError]
  /\ UNCHANGED <<opts, currency, cacheTTL, cache, now>>
  /\ UNCHANGED canonVars
  /\ UNCHANGED normVars

\* the first caller asks for EastUS, the second for eastus or westus
OverlapInputs(c) ==
  { [region |-> r, model |-> <<"g","p","t","-","4">>, promptTokens |-> {500},
     completionTokens |-> {200}, imageCount |-> Undefined] :
      r \in IF c = 1 THEN {<<"E","a","s","t","U","S">>}
                     ELSE {<<"e","a","s","t","u","s">>, <<"w","e","s","t","u","s">>} }

OverlapInit ==
  /\ Construct([currency |-> Undefined, cacheTTL |-> {1}])
  /\ now = 0
  /\ calls = [c \in Calls |-> IdleCall]
  /\ CanonIdle
  /\ NormIdle

OverlapNext ==
  \/ Tick
  \/ \E c \in Calls : \E input \in OverlapInputs(c) : Invoke(c, input)
  \/ \E c \in Calls, items \in PageItems : PageArrives(c, items)
  \/ \E c \in Calls, items \in PageItems : LastPageArrives(c, items)
  \/ \E c \in Calls : CacheSet(c)
  \/ \E c \in Calls : CacheGet(c)
  \/ \E c \in Calls : RequestRejects(c)

OverlapSpec == OverlapInit /\ [][OverlapNext]_vars

(***************************************************************************)
(* NormSpec: the loop of fetchPricing over allItems applied to a list of   *)
(* records, and applied again to the same records in another order.        *)
(***************************************************************************)
\* the records handed to the normalizer on its own: one of each kind of the
\* price list
NormRecords == {1, 2, 3, 4, 8, 9, 10, 11, 12, 13}

\* the lists of at most n different records of NormRecords
RECURSIVE RecordLists(_)
RecordLists(n) ==
  IF n = 0 THEN {<<>>}
  ELSE LET shorter == RecordLists(n - 1)
           longer == {Append(l, i) : l \in shorter, i \in NormRecords}
       IN shorter \cup {l \in longer : \A j \in 1..(Len(l) - 1) : l[j] # l[Len(l)]}

\* the list with the records at i and i + 1 exchanged
Exchanged(l, i) ==
  [j \in 1..Len(l) |-> IF j = i THEN l[i + 1] ELSE IF j = i + 1 THEN l[i] ELSE l[j]]

NormInit ==
  /\ Construct([currency |-> Undefined, cacheTTL |-> Undefined])
  /\ now = 0
  /\ calls = [c \in Calls |-> IdleCall]
  /\ CanonIdle
  /\ records \in RecordLists(MaxRecords)
  /\ table = Undefined

\* the loop runs over the records
Normalize ==
  /\ table = Undefined
  /\ table' = {BuildMeters(records)}
  /\ UNCHANGED records
  /\ UNCHANGED estimatorVars
  /\ UNCHANGED canonVars

\* the upstream returns the same records with two neighbours exchanged, and
\* the loop runs over them
NormalizeExchanged(i) ==
  /\ table # Undefined
  /\ i \in 1..(Len(records) - 1)
  /\ records' = Exchanged(records, i)
  /\ table' = {BuildMeters(records')}
  /\ UNCHANGED estimatorVars
  /\ UNCHANGED canonVars

NormNext ==
  \/ Normalize
  \/ \E i \in 1..MaxRecords : NormalizeExchanged(i)

NormSpec == NormInit /\ [][NormNext]_vars

(***************************************************************************)
(* What the claims are stated with.                                        *)
(***************************************************************************)
\* extractModelKey of each record of the price list
ItemKeys ==
  [i \in DOMAIN PriceList |->
     extractModelKey(OrElse(PriceList[i].meterName, <<>>), OrElse(PriceList[i].skuName, <<>>))]

\* the canonical keys the records of allItems are recognised under
KeysOfItems(allItems) == {ItemKeys[allItems[j]] : j \in 1..Len(allItems)} \ {Null}

\* the region's entry is younger than the TTL
YoungerThanTTL(region) ==
  /\ region \in DOMAIN cache
  /\ now - cache[region].fetchedAt < cacheTTL

\* in this step estimateCost is called in slot c
CallBegins(c) == calls[c].pc # "fetching" /\ calls'[c] # calls[c]

\* in this step the refresh of call c receives its last page
FetchEnds(c) ==
  /\ calls[c].pc = "fetching"
  /\ calls'[c].pc = "done"
  /\ calls'[c].result # UpstreamError

\* in this step a page request of call c fails
FetchFails(c) ==
  /\ calls[c].pc = "fetching"
  /\ calls'[c].pc = "done"
  /\ calls'[c].result = UpstreamError

\* call c has returned or thrown after the region's pricing was in the cache
Answered(c) == calls[c].pc = "done" /\ calls[c].result # UpstreamError

\* the canonical key of the model call c asks for
KeyOf(c) == CanonicalIds[calls[c].input.model]

\* the price table call c looked the key up in
TableOf(c) == cache[calls[c].region].meters

\* the table has an entry of its own for the key of call c
Found(c) == Answered(c) /\ KeyOf(c) \in DOMAIN TableOf(c)

\* twice the distance between two integers
Twice(a, b) == IF a >= b THEN 2 * (a - b) ELSE 2 * (b - a)

DocumentedNamesAgree ==
  (/\ text \in DocumentedModels
   /\ sku = <<>>
   /\ userKey # Unset
   /\ vendorKey \notin {Unset, Null})
    => userKey = vendorKey

(***************************************************************************)
(* C3                                                                      *)
(***************************************************************************)
\* C3: every user spelling of the o-family model of a version and a mini-ness
\* (either case, any separator, with or without a vendor prefix) has the key
\* o<version> or o<version>-mini, the vendor's meter names of that model have
\* the same key, and estimateCost answers every such spelling with the cost of
\* that key's meters.
OFamilySpellingsAgree ==
  \A v \in OVersions, m \in BOOLEAN :
    LET key == <<"o">> \o v \o (IF m THEN <<"-","m","i","n","i">> ELSE <<>>) IN
    /\ (text \in OSpellings(v, m) /\ userKey # Unset) => userKey = key
    /\ (text \in OVendorMeters(v, m) /\ vendorKey # Unset) => vendorKey = key
    /\ (text \in OSpellings(v, m) /\ quote # {} /\ key \in DOMAIN ReferencePricing.meters) =>
         quote = CostOutcomes(ReferencePricing.meters[key], ReferenceInput(text))

\* "OpenAI-O 3 Mini" was canonicalized and priced as o3-mini
OFamilySpellingPriced ==
  /\ text = <<"O","p","e","n","A","I","-","O"," ","3"," ","M","i","n","i">>
  /\ userKey = <<"o","3","-","m","i","n","i">>
  /\ quote = {Cost(1190)}

(***************************************************************************)
(* C4                                                                      *)
(***************************************************************************)
\* a text that holds "gpt-3.5", "gpt3.5", "gpt-35" or "gpt35"
HoldsGpt35(s) ==
  \/ Includes(s, <<"g","p","t","-","3",".","5">>)
  \/ Includes(s, <<"g","p","t","3",".","5">>)
  \/ Includes(s, <<"g","p","t","-","3","5">>)
  \/ Includes(s, <<"g","p","t","3","5">>)

\* C4: a text that holds one of the four GPT-3.5 spellings and does not match
\* the o-family pattern has the key gpt-35-turbo on the user path and on the
\* vendor path.
Gpt35TextsHaveOneKey ==
  (HoldsGpt35(toLowerCase(text)) /\ OFamilyVersion(toLowerCase(text)) = Null) =>
    /\ userKey # Unset => userKey = <<"g","p","t","-","3","5","-","t","u","r","b","o">>
    /\ vendorKey # Unset => vendorKey = <<"g","p","t","-","3","5","-","t","u","r","b","o">>

(***************************************************************************)
(* C5                                                                      *)
(***************************************************************************)
\* the exact value of the text formula for call c, in thousandths of a micro unit
TextFormula(c) ==
  LET meters == TableOf(c)[KeyOf(c)]
      input == calls[c].input
  IN OrElse(input.promptTokens, 0) * ValueOf(meters.inputUsd)
       + OrElse(input.completionTokens, 0) * OrElse(meters.outputUsd, 0)

\* C5 as stated: when the meters found define an input price, estimateCost
\* returns exactly promptTokens/1000 x inputPrice + completionTokens/1000 x
\* outputPrice.
TextCostIsExact ==
  \A c \in Calls :
    (Found(c) /\ TableOf(c)[KeyOf(c)].inputUsd # Undefined) =>
      /\ calls[c].result.kind = "cost"
      /\ 1000 * calls[c].result.cost = TextFormula(c)

\* C5 as amended: when the meters found define an input price, estimateCost
\* returns promptTokens/1000 x inputPrice + completionTokens/1000 x outputPrice
\* (0 for an unset count and an unset output price, whatever imageCount and the
\* image price are) rounded to the nearest multiple of 10^-6.
TextCostIsRounded ==
  \A c \in Calls :
    (Found(c) /\ TableOf(c)[KeyOf(c)].inputUsd # Undefined) =>
      /\ calls[c].result.kind = "cost"
      /\ Twice(1000 * calls[c].result.cost, TextFormula(c)) <= 1000

\* o3-mini at 1 prompt and 1 completion token: 0.0000037 was returned as 0.000004
TextCostRoundedUp ==
  \E c \in Calls :
    /\ Found(c)
    /\ KeyOf(c) = <<"o","3","-","m","i","n","i">>
    /\ calls[c].input.promptTokens = {1}
    /\ calls[c].input.completionTokens = {1}
    /\ calls[c].result = Cost(4)

(***************************************************************************)
(* C6                                                                      *)
(***************************************************************************)
\* the records of the refresh of call c that have the key of its model
RecordsOfKey(c) ==
  {j \in 1..Len(calls[c].allItems) : ItemKeys[calls[c].allItems[j]] = KeyOf(c)}

\* call c made the refresh, and the only record of its model is an image meter
OnlyAnImageMeter(c) ==
  /\ Answered(c)
  /\ calls[c].requests >= 1
  /\ Cardinality(RecordsOfKey(c)) = 1
  /\ \A j \in RecordsOfKey(c) :
       Includes(toLowerCase(OrElse(PriceList[calls[c].allItems[j]].meterName, <<>>)),
                <<"i","m","a","g","e">>)

\* the raw unit price of that record, in micro units
RawImagePrice(c) ==
  OrElse(PriceList[calls[c].allItems[CHOOSE j \in RecordsOfKey(c) : TRUE]].unitPrice, 0)

\* the table holds the image price p/100 and nothing else for the model
HoldsPerImagePrice(c) ==
  /\ KeyOf(c) \in DOMAIN TableOf(c)
  /\ TableOf(c)[KeyOf(c)].inputUsd = Undefined
  /\ TableOf(c)[KeyOf(c)].outputUsd = Undefined
  /\ TableOf(c)[KeyOf(c)].imageUsd # Undefined
  /\ 100 * ValueOf(TableOf(c)[KeyOf(c)].imageUsd) = ImageUnitsPerMicro * RawImagePrice(c)

\* C6 as stated: the table holds p/100 and estimateCost returns exactly
\* imageCount x p/100.
ImageCostIsExact ==
  \A c \in Calls :
    OnlyAnImageMeter(c) =>
      /\ HoldsPerImagePrice(c)
      /\ calls[c].result.kind = "cost"
      /\ 100 * calls[c].result.cost = OrElse(calls[c].input.imageCount, 1) * RawImagePrice(c)

\* C6 as amended: the table holds p/100 and estimateCost returns imageCount x
\* p/100 (imageCount 1 when unset) rounded to the nearest multiple of 10^-6.
ImageCostIsRounded ==
  \A c \in Calls :
    OnlyAnImageMeter(c) =>
      /\ HoldsPerImagePrice(c)
      /\ calls[c].result.kind = "cost"
      /\ Twice(100 * calls[c].result.cost,
               OrElse(calls[c].input.imageCount, 1) * RawImagePrice(c)) <= 100

\* a raw price of 20 was stored as 0.20 and one image, imageCount unset, cost 0.20
ImagePricedPerImage ==
  \E c \in Calls :
    /\ OnlyAnImageMeter(c)
    /\ RawImagePrice(c) = 20000000
    /\ TableOf(c)[KeyOf(c)].imageUsd = {20000000}
    /\ calls[c].input.imageCount = Undefined
    /\ calls[c].result = Cost(200000)

(***************************************************************************)
(* C7                                                                      *)
(***************************************************************************)
\* C7: when the table of the region has no entry for the canonical key,
\* estimateCost throws PricingNotFound with the model as the caller gave it
\* and the region, after the region's pricing was put in the cache.
UnknownModelIsNotFound ==
  \A c \in Calls :
    (Answered(c) /\ ~Found(c)) =>
      /\ calls[c].region \in DOMAIN cache
      /\ calls[c].result = PricingNotFound(calls[c].input.model, calls[c].region)

(***************************************************************************)
(* C8                                                                      *)
(***************************************************************************)
\* C8: when a page request fails, the call ends with that error in the same
\* step, no request is issued, the cache is left as it is for every region,
\* and the region's entry is still missing or of age >= cacheTTL, so that the
\* next call for the region fetches again.
FailedRefreshWritesNothing ==
  [][\A c \in Calls :
       FetchFails(c) =>
         /\ cache' = cache
         /\ calls'[c].requests = calls[c].requests
         /\ calls'[c].next = calls[c].next
         /\ ~(/\ calls[c].region \in DOMAIN cache'
              /\ now' - cache'[calls[c].region].fetchedAt < cacheTTL')
    ]_vars

\* the second page request of a refresh failed and the stale entry is kept
StaleEntryKeptAfterFailure ==
  \E c \in Calls :
    /\ calls[c].pc = "done"
    /\ calls[c].result = UpstreamError
    /\ calls[c].requests = 2
    /\ calls[c].region \in DOMAIN cache
    /\ now - cache[calls[c].region].fetchedAt >= cacheTTL

(***************************************************************************)
(* C9                                                                      *)
(***************************************************************************)
\* C9: estimateCost returns a cost only when the meters found define an input
\* price or an image price, and throws the unsupported-input error when the
\* entry defines neither.
CostOnlyFromAPrice ==
  \A c \in Calls :
    Found(c) =>
      LET meters == TableOf(c)[KeyOf(c)]
          priced == meters.inputUsd # Undefined \/ meters.imageUsd # Undefined
      IN /\ calls[c].result.kind = "cost" => priced
         /\ ~priced => calls[c].result = UnsupportedInput

ApplicableFormula(c) ==
  LET meters == TableOf(c)[KeyOf(c)]
      input == calls[c].input
  IN IF meters.inputUsd # Undefined
       THEN [num |-> OrElse(input.promptTokens, 0) * ValueOf(meters.inputUsd)
                       + OrElse(input.completionTokens, 0) * OrElse(meters.outputUsd, 0),
             den |-> 1000]
     ELSE IF meters.imageUsd # Undefined
       THEN [num |-> OrElse(input.imageCount, 1) * ValueOf(meters.imageUsd),
             den |-> ImageUnitsPerMicro]
     ELSE [num |-> 0, den |-> 1]

\* C11 as stated: the cost returned is the exact value of the applicable
\* formula with the digits after the sixth decimal cut off.
CostIsTruncated ==
  \A c \in Calls :
    (Found(c) /\ calls[c].result.kind = "cost") =>
      LET f == ApplicableFormula(c) IN
      /\ f.den * calls[c].result.cost <= f.num
      /\ f.num < f.den * (calls[c].result.cost + 1)

\* C11 as amended: the cost returned is a multiple of 10^-6 nearest to the
\* exact value of the applicable formula (at most half of 10^-6 away from it,
\* above or below).
CostIsNearest ==
  \A c \in Calls :
    (Found(c) /\ calls[c].result.kind = "cost") =>
      LET f == ApplicableFormula(c) IN
      Twice(f.den * calls[c].result.cost, f.num) <= f.den

\* a cost was returned that lies above the exact value, less than half of
\* 10^-6 away from it: truncation would have returned 10^-6 less
CostRoundedAboveExact ==
  \E c \in Calls :
    /\ Found(c)
    /\ calls[c].result.kind = "cost"
    /\ ApplicableFormula(c).den * calls[c].result.cost > ApplicableFormula(c).num
    /\ Twice(ApplicableFormula(c).den * calls[c].result.cost, ApplicableFormula(c).num)
         < ApplicableFormula(c).den

(***************************************************************************)
(* C12                                                                     *)
(***************************************************************************)
\* C12: under every interleaving of two callers, a step changes the cache only
\* when ensurePricing of one call resumes after its fetch received its last
\* page, and it then puts {now, the map of all the items of that one fetch} in
\* the place of the region's entry, whatever the entry was (the fetch that
\* completes last wins) and leaves the other regions alone; a page arriving
\* changes no entry; and a call reads its answer from the entry the cache
\* holds at that moment.
OverlappingCallsSeeWholeTables ==
  [][/\ cache' # cache =>
          \E c \in Calls :
            /\ calls[c].pc = "fetched"
            /\ calls'[c].pc = "ensured"
            /\ calls[c].next = NullLink
            /\ DOMAIN cache' = DOMAIN cache \cup {calls[c].region}
            /\ cache'[calls[c].region] =
                 [fetchedAt |-> now, meters |-> MetersOf[calls[c].allItems]]
            /\ \A r \in DOMAIN cache \ {calls[c].region} : cache'[r] = cache[r]
     /\ \A c \in Calls :
          (calls[c].pc = "fetched" /\ calls'[c].pc = "ensured") =>
            /\ calls[c].region \in DOMAIN cache'
            /\ cache'[calls[c].region].meters = MetersOf[calls[c].allItems]
     /\ \A c \in Calls :
          (calls[c].pc = "ensured" /\ calls'[c].pc = "done") =>
            /\ calls[c].region \in DOMAIN cache
            /\ calls'[c].result \in
                 EstimateOutcomes(cache[calls[c].region], calls[c].region, calls[c].input)
    ]_vars

\* while the first call holds one page of its fetch, the second call's fetch
\* for the same region has been stored and answered with a cost
StoredDuringAnotherFetch ==
  /\ calls[1].pc = "fetching"
  /\ calls[1].requests = 2
  /\ calls[2].pc = "done"
  /\ calls[2].result.kind = "cost"
  /\ calls[2].region = calls[1].region
  /\ calls[1].region \in DOMAIN cache
  /\ cache[calls[1].region].fetchedAt = now

(***************************************************************************)
(* C13                                                                     *)
(***************************************************************************)
\* C13: at any time at most one call has a page request outstanding for a
\* region.
OneFetchPerRegion ==
  \A c1 \in Calls, c2 \in Calls :
    (/\ c1 # c2
     /\ calls[c1].pc = "fetching"
     /\ calls[c2].pc = "fetching")
      => calls[c1].region # calls[c2].region

(***************************************************************************)
(* C14                                                                     *)
(***************************************************************************)
\* in this step call c receives a page that has a NextPageLink
PageWithLink(c) ==
  /\ calls[c].pc = "fetching"
  /\ calls'[c].pc = "fetching"
  /\ calls'[c] # calls[c]

\* C14, step by step: a refresh starts with one request, for the first page
\* (skip 0) and with nothing collected; a page with a link adds its items
\* after those already collected, and exactly one request follows, for the
\* page the link names (the same query, skipping the items received so far),
\* and the cache is not written; the page without a link adds its items, no
\* request follows, and the table stored is the map of the items of all the
\* pages received; the cache is written in no other step.
PagesFollowedThenStored ==
  [][/\ \A c \in Calls :
          /\ (calls[c].pc # "fetching" /\ calls'[c].pc = "fetching") =>
               /\ calls'[c].requests = 1
               /\ calls'[c].allItems = <<>>
               /\ calls'[c].next.skip = 0
               /\ cache' = cache
          /\ PageWithLink(c) =>
               /\ calls'[c].requests = calls[c].requests + 1
               /\ \E items \in PageItems :
                    /\ calls'[c].allItems = calls[c].allItems \o items
                    /\ calls'[c].next.skip = calls[c].next.skip + Len(items)
               /\ calls'[c].next.filter = calls[c].next.filter
               /\ calls'[c].next.skip = Len(calls'[c].allItems)
               /\ cache' = cache
          /\ FetchEnds(c) =>
               /\ calls'[c].requests = calls[c].requests
               /\ calls'[c].next = NullLink
               /\ \E items \in PageItems :
                    calls'[c].allItems = calls[c].allItems \o items
               /\ cache'[calls[c].region].meters = MetersOf[calls'[c].allItems]
               /\ KeysOfItems(calls'[c].allItems) = DOMAIN cache'[calls[c].region].meters
     /\ cache' # cache => \E c \in Calls : FetchEnds(c)
    ]_vars

\* C14, in the end: a refresh whose upstream keeps answering and at some time
\* answers with a null link comes to its end.
RefreshEnds == (calls[1].pc = "fetching") ~> (calls[1].pc = "done")

\* C14: the pages are followed one at a time until the null link, the table
\* stored is built from all of them, and the refresh ends when the upstream
\* returns a null link.
PagingFollowsLinksToTheEnd == PagesFollowedThenStored /\ RefreshEnds

\* a refresh of two pages, the first page of six items and the second of
\* four, stored the table of all ten items
TwoPagesStored ==
  \E c \in Calls :
    /\ calls[c].pc = "done"
    /\ calls[c].requests = 2
    /\ calls[c].allItems = <<5, 6, 7, 8, 9, 10, 1, 2, 3, 4>>
    /\ calls[c].region \in DOMAIN cache
    /\ DOMAIN cache[calls[c].region].meters = KeysOfItems(calls[c].allItems)
    /\ Cardinality(DOMAIN cache[calls[c].region].meters) = 6

(***************************************************************************)
(* C15                                                                     *)
(***************************************************************************)
\* the key the generic GPT rule is to give for a version and a suffix
GptRuleKey(version, suffix) ==
  <<"g","p","t","-">> \o version \o
    (IF suffix = <<>> THEN <<>>
     ELSE IF suffix = <<"o">> THEN <<"o">>
     ELSE <<"-">> \o suffix)

\* C15: for the vendor text of a GPT model of version 3 or 4, with or without
\* turbo, and a suffix joined directly or through a hyphen or a space,
\* extractModelKey returns gpt-<version>-<suffix>, gpt-<version>o for the
\* suffix o, and gpt-<version> when there is no suffix.
GptTextsKeepTheirSuffix ==
  \A v \in GptVersions, x \in Range(GptSuffixes) \cup {<<>>} :
    (text \in GptVendorTexts(v, x) /\ vendorKey # Unset) => vendorKey = GptRuleKey(v, x)

(***************************************************************************)
(* C16                                                                     *)
(***************************************************************************)
\* the text falls to the fallback rule of canonicalModelId
FallsBack(s) ==
  /\ OFamilyVersion(toLowerCase(s)) = Null
  /\ ~Includes(toLowerCase(s), <<"g","p","t","-","3",".","5">>)
  /\ ~Includes(toLowerCase(s), <<"g","p","t","3",".","5">>)

\* lowercase letters, digits and single hyphens, with no hyphen at either end
IsCleanKey(k) ==
  /\ \A i \in 1..Len(k) : IsLowerAlnum(k[i]) \/ k[i] = "-"
  /\ \A i \in 1..(Len(k) - 1) : ~(k[i] = "-" /\ k[i + 1] = "-")
  /\ Len(k) > 0 => (k[1] # "-" /\ k[Len(k)] # "-")

\* C16: for a model string that matches neither the o-family nor the GPT-3.5
\* rule, canonicalModelId returns lowercase letters, digits and single
\* hyphens, with no hyphen at either end, and returns its own result
\* unchanged.
FallbackKeysAreClean ==
  (FallsBack(text) /\ userKey # Unset) =>
    /\ IsCleanKey(userKey)
    /\ canonicalModelId(userKey) = userKey

(***************************************************************************)
(* C17                                                                     *)
(***************************************************************************)
\* the price field the meter name of a record chooses: the first of image,
\* input/prompt, output/completion and embedding it holds, "none" with no
\* keyword in it
FieldOfName(meterName) ==
  LET name == toLowerCase(meterName) IN
  CASE Includes(name, <<"i","m","a","g","e">>) -> "imageUsd"
    [] /\ ~Includes(name, <<"i","m","a","g","e">>)
       /\ (Includes(name, <<"i","n","p","u","t">>) \/ Includes(name, <<"p","r","o","m","p","t">>))
         -> "inputUsd"
    [] /\ ~Includes(name, <<"i","m","a","g","e">>)
       /\ ~Includes(name, <<"i","n","p","u","t">>)
       /\ ~Includes(name, <<"p","r","o","m","p","t">>)
       /\ (Includes(name, <<"o","u","t","p","u","t">>)
             \/ Includes(name, <<"c","o","m","p","l","e","t","i","o","n">>))
         -> "outputUsd"
    [] /\ ~Includes(name, <<"i","m","a","g","e">>)
       /\ ~Includes(name, <<"i","n","p","u","t">>)
       /\ ~Includes(name, <<"p","r","o","m","p","t">>)
       /\ ~Includes(name, <<"o","u","t","p","u","t">>)
       /\ ~Includes(name, <<"c","o","m","p","l","e","t","i","o","n">>)
       /\ Includes(name, <<"e","m","b","e","d","d","i","n","g">>)
         -> "inputUsd"
    [] OTHER -> "none"

\* FieldOfName of each record of the price list
ItemFields == [i \in DOMAIN PriceList |-> FieldOfName(OrElse(PriceList[i].meterName, <<>>))]

\* the price a record puts in its field: the unit price, a hundredth of it
\* for an image
ItemPrices ==
  [i \in DOMAIN PriceList |->
     IF ItemFields[i] = "imageUsd"
       THEN (OrElse(PriceList[i].unitPrice, 0) * ImageUnitsPerMicro) \div 100
       ELSE OrElse(PriceList[i].unitPrice, 0)]

\* no two records of the list set the same field of the same key
NoTwoSetTheSame(l) ==
  \A i \in 1..Len(l), j \in 1..Len(l) :
    (/\ i # j
     /\ ItemKeys[l[i]] # Null
     /\ ItemFields[l[i]] # "none"
     /\ ItemKeys[l[i]] = ItemKeys[l[j]])
      => ItemFields[l[i]] # ItemFields[l[j]]

\* the fields of an entry that hold a price
FieldsSet(entry) == {f \in {"inputUsd", "outputUsd", "imageUsd"} : entry[f] # Undefined}

\* the keys of the table are the keys of the recognized records, and every
\* price in the table is in the field its record's meter name chooses
TableOfRecords(l, t) ==
  /\ DOMAIN t = KeysOfItems(l)
  /\ \A k \in DOMAIN t : \A f \in FieldsSet(t[k]) :
       \E i \in 1..Len(l) :
         /\ ItemKeys[l[i]] = k
         /\ ItemFields[l[i]] = f
         /\ t[k][f] = {ItemPrices[l[i]]}
  /\ NoTwoSetTheSame(l) =>
       \A i \in 1..Len(l) :
         (ItemKeys[l[i]] # Null /\ ItemFields[l[i]] # "none") =>
           t[ItemKeys[l[i]]][ItemFields[l[i]]] = {ItemPrices[l[i]]}

TableIsRight == table # Undefined => TableOfRecords(records, ValueOf(table))

=============================================================================
